---- MODULE Spec2Model ----
(***************************************************************************)
(* The knowledge-graph viewer of src/components/KnowledgeGraphViewer.tsx:  *)
(* kinetic state (positions), the reconcile and layout effects, the        *)
(* animation-frame stepping loop, the radial (ontology) placement and the  *)
(* pan/zoom transform.                                                     *)
(*                                                                         *)
(* Numbers.  JavaScript numbers are modelled in fixed point: lengths and   *)
(* velocities of nodes in units of 1/Q pixel, the zoom scale k and the      *)
(* importance scores in thousandths, pointer coordinates and the viewport  *)
(* translation in whole pixels.  Every product of the code that leaves the *)
(* grid is rounded to the nearest unit (RDiv), where the code rounds to    *)
(* the nearest double.                                                     *)
(*                                                                         *)
(* Scheduling.  A prop or state change re-renders the component and marks  *)
(* the effects whose dependencies changed as pending; React runs pending   *)
(* passive effects (cleanups first, then effects in source order) in one   *)
(* synchronous flush before the next render.  An animation-frame callback  *)
(* requested earlier may run between the render and that flush.  A state   *)
(* updater is applied in queue order, so applying it when it is queued     *)
(* gives the same state.  Event handlers see the state of the last render. *)
(***************************************************************************)
EXTENDS Integers, Sequences, FiniteSets, TLC

\* ------------------------------------------------------------------ numbers

\* Units per pixel of the fixed-point grid.
Q == 10

\* Units of the zoom scale k and of the importance scores (1.0 = KOne).
KOne == 1000

Max(a, b) == IF a >= b THEN a ELSE b
Min(a, b) == IF a <= b THEN a ELSE b
Abs(a) == IF a >= 0 THEN a ELSE -a

\* a / b rounded to the nearest integer (b > 0).
RDiv(a, b) == (2 * a + b) \div (2 * b)

RECURSIVE SqrtSearch(_, _, _)
SqrtSearch(n, lo, hi) ==
  IF lo >= hi THEN lo
  ELSE LET mid == (lo + hi + 1) \div 2
       IN IF mid * mid <= n THEN SqrtSearch(n, mid, hi)
                            ELSE SqrtSearch(n, lo, mid - 1)

\* Math.sqrt on the grid: the largest r with r*r <= n.
Sqrt(n) == SqrtSearch(n, 0, Min(n, 40000))

RECURSIVE SeqSum(_)
SeqSum(s) == IF Len(s) = 0 THEN 0 ELSE Head(s) + SeqSum(Tail(s))

\* ------------------------------------------------------------------ inputs

\* The nodes the host may supply (id, label, type as in the host's initial graph).
NodeUniverse ==
  << [id |-> "luminous", label |-> "Luminous", type |-> "architecture"],
     [id |-> "truth", label |-> "Truth", type |-> "value"],
     [id |-> "coherence", label |-> "coherence", type |-> "value"],
     [id |-> "kyle", label |-> "Kyle", type |-> "concept"] >>

\* The edges the host supplies with every graph; an edge whose endpoint is not
\* among the graph's nodes is a dangling edge.
EdgeUniverse ==
  << [id |-> "e1", source |-> "luminous", target |-> "truth"],
     [id |-> "e2", source |-> "luminous", target |-> "coherence"],
     [id |-> "e3", source |-> "truth", target |-> "kyle"] >>

\* The node sets of the graphs the host supplies, as indices of NodeUniverse.
NodeSets == { {}, {1, 2}, {1, 2, 3}, {2, 4} }

MkGraph(S) ==
  [nodes |-> SelectSeq(NodeUniverse,
                       LAMBDA n : \E i \in S : NodeUniverse[i] = n),
   edges |-> EdgeUniverse]

Graphs == { MkGraph(S) : S \in NodeSets }

InitialGraph == MkGraph({1, 2})

\* Record<string, number> in key order: a sequence of key/score pairs.
ValueOntologies ==
  { << [k |-> "Truth", v |-> 950], [k |-> "Coherence", v |-> 900] >>,
    << [k |-> "truth", v |-> 500] >> }

InitialOntology == << [k |-> "Truth", v |-> 950], [k |-> "Coherence", v |-> 900] >>

\* Container sizes getBoundingClientRect may report, in pixels.
Sizes == { <<0, 0>>, <<60, 40>>, <<15, 15>> }

\* Sequences of values Math.random() may return to one run of the reconcile
\* updater, in thousandths.
RandomStreams ==
  { << 0, 0, 0, 0, 0, 0, 0, 0 >>,
    << 750, 250, 100, 900, 500, 500, 300, 600 >> }

\* String.prototype.toLowerCase on the strings of the model.
ToLowerCase(s) ==
  CASE s = "Luminous" -> "luminous"
    [] s = "Truth" -> "truth"
    [] s = "Coherence" -> "coherence"
    [] s = "Kyle" -> "kyle"
    [] OTHER -> s

\* String.prototype.trim on the search terms of the model.
Trim(s) == IF s = " " THEN "" ELSE s

SearchTerms == { "", " ", "tru" }

Ids(nodes) == { nodes[i].id : i \in 1..Len(nodes) }

\* ------------------------------------------------------- program constants

repulsion == 800

\* attraction = 0.03, in hundredths.
attraction == 3

\* damping = 0.97, in hundredths.
damping == 97

\* centerGravity = 0.02, in hundredths.
centerGravity == 2

\* The margin of the position clamp, in pixels.
margin == 10

\* zoomFactor = 1.1, in tenths.
zoomFactor == 11

\* The bounds of the zoom clamp, 0.1 and 5, in thousandths.
KMin == 100

KMax == 5000

\* The score of a value node without an ontology entry, 0.5, in thousandths.
defaultScore == 500

\* ------------------------------------------------------------ filteredGraph

EmptyPositions == [id \in {} |-> 0]

\* Array.prototype.findIndex, counted from 1: the index of the first element
\* satisfying Test, or 0 when there is none (find returns undefined).
FindIndex(seq, Test(_)) ==
  IF \E i \in 1..Len(seq) : Test(seq[i])
  THEN CHOOSE i \in 1..Len(seq) :
         Test(seq[i]) /\ \A j \in 1..(i - 1) : ~Test(seq[j])
  ELSE 0

filteredGraph(v, g, vo) ==
  IF v = "full" THEN g
  ELSE
    LET central == FindIndex(g.nodes, LAMBDA n : n.id = "luminous")
    IN IF central = 0 THEN [nodes |-> <<>>, edges |-> <<>>]
       ELSE
         LET centralNode == g.nodes[central]
             valueOntologyLabels == { ToLowerCase(vo[i].k) : i \in 1..Len(vo) }
             valueNodes ==
               SelectSeq(g.nodes,
                         LAMBDA n : n.type = "value"
                                    /\ ToLowerCase(n.label) \in valueOntologyLabels)
             valueNodeIds == Ids(valueNodes)
             ontologyEdges ==
               SelectSeq(g.edges,
                         LAMBDA e : e.source = centralNode.id
                                    /\ e.target \in valueNodeIds)
         IN [nodes |-> <<centralNode>> \o valueNodes, edges |-> ontologyEdges]

\* ---------------------------------------------------------------- reconcile

\* Math.random() * extent, extent in pixels, the result on the grid.
RandomCoordinate(r, extent) == RDiv(r * extent * Q, KOne)

SeedNode(id, rx, ry, w, h) ==
  [id |-> id, x |-> RandomCoordinate(rx, w), y |-> RandomCoordinate(ry, h),
   vx |-> 0, vy |-> 0]

\* The entry the updater's loop leaves for a node without a previous entry:
\* the loop draws two values for every such element of nodes, and the last
\* element with the id wins.
SeedFromStream(prevPositions, nodes, id, w, h, stream) ==
  LET last == CHOOSE i \in 1..Len(nodes) :
                nodes[i].id = id /\ \A j \in (i + 1)..Len(nodes) : nodes[j].id # id
      draw == Cardinality({ j \in 1..last : nodes[j].id \notin DOMAIN prevPositions })
  IN SeedNode(id, stream[2 * draw - 1], stream[2 * draw], w, h)

\* A variant that seeds every node afresh.
ReconcileReseedAll(prevPositions, nodes, w, h, stream) ==
  [id \in Ids(nodes) |-> SeedFromStream(EmptyPositions, nodes, id, w, h, stream)]

\* A variant that keeps the entries of removed nodes.
ReconcileKeepRemoved(prevPositions, nodes, w, h, stream) ==
  [id \in Ids(nodes) \cup DOMAIN prevPositions |->
     IF id \in DOMAIN prevPositions THEN prevPositions[id]
     ELSE SeedFromStream(prevPositions, nodes, id, w, h, stream)]

\* The updater of the reconcile effect; stream gives the values of Math.random().
Reconcile(prevPositions, nodes, w, h, stream) ==
  [id \in Ids(nodes) |->
     IF id \in DOMAIN prevPositions THEN prevPositions[id]
     ELSE SeedFromStream(prevPositions, nodes, id, w, h, stream)]

\* ------------------------------------------------------------ radial layout

\* valueOntology[label] ?? valueOntology[keys.find(lower-case match) ?? ''] ?? 0.5
valueScore(vo, label) ==
  LET exact == FindIndex(vo, LAMBDA e : e.k = label)
      loose == FindIndex(vo, LAMBDA e : ToLowerCase(e.k) = ToLowerCase(label))
      looseKey == IF loose = 0 THEN "" ELSE vo[loose].k
      byLooseKey == FindIndex(vo, LAMBDA e : e.k = looseKey)
  IN IF exact # 0 THEN vo[exact].v
     ELSE IF byLooseKey # 0 THEN vo[byLooseKey].v
     ELSE defaultScore

\* Math.cos and Math.sin of angleStep * index with angleStep = 2 pi / count,
\* in thousandths, for the counts the model reaches.
Cos1000(index, count) ==
  CASE count = 1 -> 1000
    [] count = 2 -> IF index = 0 THEN 1000 ELSE -1000
    [] count = 3 -> IF index = 0 THEN 1000 ELSE -500
    [] count = 4 -> CASE index = 0 -> 1000 [] index = 1 -> 0
                      [] index = 2 -> -1000 [] index = 3 -> 0

Sin1000(index, count) ==
  CASE count = 1 -> 0
    [] count = 2 -> 0
    [] count = 3 -> CASE index = 0 -> 0 [] index = 1 -> 866 [] index = 2 -> -866
    [] count = 4 -> CASE index = 0 -> 0 [] index = 1 -> 1000
                      [] index = 2 -> 0 [] index = 3 -> -1000

\* The positions the ontology branch of the layout effect builds.
OntologyPositions(fg, vo, w, h) ==
  LET central == FindIndex(fg.nodes, LAMBDA n : n.id = "luminous")
      valueNodes == SelectSeq(fg.nodes, LAMBDA n : n.type = "value")
      count == Len(valueNodes)
      cx == RDiv(w * Q, 2)
      cy == RDiv(h * Q, 2)
      maxRadius == RDiv(Min(w, h) * Q * 2, 5)
      Radius(node) == RDiv(maxRadius * (1100 - valueScore(vo, node.label)), KOne)
      \* forEach assigns in order: the last value node with an id wins, and a
      \* value node overwrites the central node's entry.
      LastIndex(id) ==
        CHOOSE i \in 1..count :
          valueNodes[i].id = id /\ \A j \in (i + 1)..count : valueNodes[j].id # id
      Placed(id) ==
        LET i == LastIndex(id)
            node == valueNodes[i]
        IN [id |-> id,
            x |-> cx + RDiv(Radius(node) * Cos1000(i - 1, count), 1000),
            y |-> cy + RDiv(Radius(node) * Sin1000(i - 1, count), 1000),
            vx |-> 0, vy |-> 0]
      centralIds == IF central = 0 THEN {} ELSE {fg.nodes[central].id}
  IN [id \in centralIds \cup Ids(valueNodes) |->
        IF id \in Ids(valueNodes) THEN Placed(id)
        ELSE [id |-> id, x |-> cx, y |-> cy, vx |-> 0, vy |-> 0]]

\* ------------------------------------------------------------ the tick

\* Math.sqrt(dx * dx + dy * dy) || 1: only a distance of exactly 0 becomes 1 pixel.
distance(dx, dy) ==
  LET d == Sqrt(dx * dx + dy * dy) IN IF d = 0 THEN Q ELSE d

\* force * (d / distance) with force = repulsion / distance^2, d one component
\* of the displacement; the result in grid units.
RepulsionImpulse(d, dist) == RDiv(repulsion * Q * Q * Q * d, dist * dist * dist)

\* d * attraction.
AttractionImpulse(d) == RDiv(d * attraction, 100)

\* (center - coordinate) * centerGravity.
GravityImpulse(center, coordinate) == RDiv((center - coordinate) * centerGravity, 100)

\* Math.max(10, Math.min(extent - 10, v)), extent in pixels.
Clamp(v, extent) == Max(margin * Q, Min((extent - margin) * Q, v))

\* A variant of the integration without the clamp.
IntegrateUnclamped(pos, vx, vy, w, h) ==
  LET nvx == RDiv(vx * damping, 100)
      nvy == RDiv(vy * damping, 100)
  IN [id |-> pos.id, x |-> pos.x + nvx, y |-> pos.y + nvy, vx |-> nvx, vy |-> nvy]

\* The integration of one entry whose velocity after the forces is (vx, vy).
Integrate(pos, vx, vy, w, h) ==
  LET nvx == RDiv(vx * damping, 100)
      nvy == RDiv(vy * damping, 100)
  IN [id |-> pos.id, x |-> Clamp(pos.x + nvx, w), y |-> Clamp(pos.y + nvy, h),
      vx |-> nvx, vy |-> nvy]

\* Whether the edge loop applies the edge: both endpoints have an entry.
EdgeApplies(cur, e) == e.source \in DOMAIN cur /\ e.target \in DOMAIN cur

\* The updater of one tick of updatePositions, for the graph fg and the
\* container size (w, h) its effect captured.
updatePositions(cur, fg, w, h) ==
  IF DOMAIN cur = {} \/ Len(fg.nodes) = 0 THEN EmptyPositions
  ELSE
    LET nodes == fg.nodes
        edges == fg.edges
        centerX == RDiv(w * Q, 2)
        centerY == RDiv(h * Q, 2)
        Has(id) == id \in DOMAIN cur
        Dist(a, b) == distance(cur[b].x - cur[a].x, cur[b].y - cur[a].y)
        \* the inner loop over nodeB, for nodeA = a
        RepelX(a) ==
          SeqSum([j \in 1..Len(nodes) |->
            LET b == nodes[j].id
            IN IF a = b \/ ~Has(b) THEN 0
               ELSE -RepulsionImpulse(cur[b].x - cur[a].x, Dist(a, b))])
        RepelY(a) ==
          SeqSum([j \in 1..Len(nodes) |->
            LET b == nodes[j].id
            IN IF a = b \/ ~Has(b) THEN 0
               ELSE -RepulsionImpulse(cur[b].y - cur[a].y, Dist(a, b))])
        \* the outer loop runs once for every occurrence of the id in nodes
        NodeVX(a) ==
          SeqSum([i \in 1..Len(nodes) |->
            IF nodes[i].id = a
            THEN GravityImpulse(centerX, cur[a].x) + RepelX(a) ELSE 0])
        NodeVY(a) ==
          SeqSum([i \in 1..Len(nodes) |->
            IF nodes[i].id = a
            THEN GravityImpulse(centerY, cur[a].y) + RepelY(a) ELSE 0])
        EdgeVX(a) ==
          SeqSum([k \in 1..Len(edges) |->
            LET e == edges[k]
            IN IF ~EdgeApplies(cur, e) THEN 0
               ELSE LET dx == cur[e.target].x - cur[e.source].x
                    IN (IF e.source = a THEN AttractionImpulse(dx) ELSE 0)
                       - (IF e.target = a THEN AttractionImpulse(dx) ELSE 0)])
        EdgeVY(a) ==
          SeqSum([k \in 1..Len(edges) |->
            LET e == edges[k]
            IN IF ~EdgeApplies(cur, e) THEN 0
               ELSE LET dy == cur[e.target].y - cur[e.source].y
                    IN (IF e.source = a THEN AttractionImpulse(dy) ELSE 0)
                       - (IF e.target = a THEN AttractionImpulse(dy) ELSE 0)])
    IN [a \in DOMAIN cur |->
          Integrate(cur[a], cur[a].vx + NodeVX(a) + EdgeVX(a),
                    cur[a].vy + NodeVY(a) + EdgeVY(a), w, h)]

\* ------------------------------------------------------------ render

\* The highlight memo reaches its final return statement, which reads
\* highlightedNodeIds and highlightedEdgeIds while the const that declares
\* them is still being initialised: a ReferenceError.
HighlightThrows(term, v) == ~(Trim(term) = "" \/ v = "ontology")

\* The edges the render emits a <g> for: both endpoints have an entry.
RenderedEdgeIds(fg, pos) ==
  { fg.edges[i].id : i \in { j \in 1..Len(fg.edges) :
        fg.edges[j].source \in DOMAIN pos /\ fg.edges[j].target \in DOMAIN pos } }

\* ------------------------------------------------------------ pan and zoom

IdentityTransform == [k |-> KOne, x |-> 0, y |-> 0]

\* The position of the svg element in client coordinates, in pixels.
SvgOrigin == <<19, 9>>

\* Pointer positions (clientX, clientY), in pixels.
ClientPoints == { <<20, 10>>, <<22, 12>> }

\* svgPoint.matrixTransform(getScreenCTM().inverse()).
SvgPoint(c) == [x |-> c[1] - SvgOrigin[1], y |-> c[2] - SvgOrigin[2]]

\* transform.k * zoomFactor for deltaY < 0, transform.k / zoomFactor otherwise.
NewScale(k, deltaY) ==
  IF deltaY < 0 THEN RDiv(k * zoomFactor, 10) ELSE RDiv(k * 10, zoomFactor)

\* A variant of the clamp without its upper bound.
ClampScaleNoMax(newScale) == Max(KMin, newScale)

\* Math.max(0.1, Math.min(5, newScale)).
ClampScale(newScale) == Max(KMin, Min(KMax, newScale))

\* A variant that zooms about the origin instead of the cursor.
WheelOffsetAboutOrigin(p, t, newK, k) == RDiv(t * newK, k)

\* point - (point - translation) * (newK / transform.k), for one axis.
WheelOffset(p, t, newK, k) == p - RDiv((p - t) * newK, k)

\* The transform handleWheel sets.
WheelTransform(t, point, deltaY) ==
  LET newK == ClampScale(NewScale(t.k, deltaY))
  IN [k |-> newK, x |-> WheelOffset(point.x, t.x, newK, t.k),
      y |-> WheelOffset(point.y, t.y, newK, t.k)]

\* A variant of the move handler's update that ignores isDragging.
MoveTransformAlways(t, dragging, c, start) ==
  [t EXCEPT !.x = c[1] - start.x, !.y = c[2] - start.y]

\* The transform after handleMouseMove.
MoveTransform(t, dragging, c, start) ==
  IF ~dragging THEN t
  ELSE [t EXCEPT !.x = c[1] - start.x, !.y = c[2] - start.y]

\* ------------------------------------------------------------ bounds

\* Spec: the numbers of prop, view and size changes, of animation-frame
\* callbacks and of pointer, wheel and search-box events of a behaviour.
MaxProps == 1

MaxTicks == 1

MaxInputs == 1

\* SpecLayout: the numbers of changes (graph, ontology, view, size, search
\* term) and of animation-frame callbacks of a behaviour.
MaxChanges == 3

MaxLayoutTicks == 3

\* The largest translation of the viewport, in pixels, of SpecTransform.
MaxPan == 4

\* ------------------------------------------------------------ state

VARIABLES
  graph,              \* prop: the knowledge graph
  valueOntology,      \* prop: the importance scores
  size,               \* the container's bounding rectangle <<width, height>>
  view,               \* state: "full" or "ontology"
  positions,          \* state: id -> NodePosition
  searchTerm,         \* state
  transform,          \* state: {k, x, y}
  isDragging,         \* state
  dragStartRef,       \* ref
  animationFrameRef,  \* ref: the id of the last requested animation frame
  frames,             \* the animation frames requested and not yet run or cancelled
  nextFrameId,        \* the id requestAnimationFrame returns next
  pending,            \* the effects whose dependencies changed in the last render
  hasCleanup,         \* whether the last run of the layout effect returned a cleanup
  layoutSize,         \* the size the last run of the layout effect measured
  reconcileSize,      \* the size the last run of the reconcile effect measured
  reconcileResult,    \* the value the reconcile updater last returned
  crashed,            \* a render threw: React unmounted the tree
  lastEvent,          \* the step taken last
  organic,            \* the kinetic state and graph when the view last left full view
  selection,          \* SelectionState: the selected node and its neighbor closure
  hoveredNode,        \* state: the node under the pointer, or Null
  mounted,            \* the component is mounted
  variant,            \* the viewer mounted: "current" (components/KnowledgeGraphViewer.tsx) or "earlier" (unnamed/part_000)
  nProps, nTicks, nInputs

vars ==
  << graph, valueOntology, size, view, positions, searchTerm, transform,
     isDragging, dragStartRef, animationFrameRef, frames, nextFrameId, pending,
     hasCleanup, layoutSize, reconcileSize, reconcileResult, crashed, lastEvent,
     organic, selection, hoveredNode, mounted, variant, nProps, nTicks, nInputs >>

layoutVars ==
  << graph, valueOntology, size, view, positions, animationFrameRef, frames,
     nextFrameId, pending, hasCleanup, layoutSize, reconcileSize, reconcileResult >>

viewVars == << transform, isDragging, dragStartRef >>

counters == << nProps, nTicks, nInputs >>

Event(type, a, b, d) == [type |-> type, a |-> a, b |-> b, d |-> d]

FilteredGraph == filteredGraph(view, graph, valueOntology)

\* No view switch is under way.
NoOrganic == [away |-> FALSE, graph |-> MkGraph({}), positions |-> EmptyPositions]

\* useState<GraphNode | null>(null)
Null == [id |-> "", label |-> "", type |-> ""]

\* No node is selected.
NoSelection == [selectedNodeId |-> "", nodeIds |-> {}, edgeIds |-> {}]

\* The state of a viewer after its first render.
InitViewer ==
  /\ organic = NoOrganic
  /\ selection = NoSelection
  /\ hoveredNode = Null
  /\ mounted = TRUE
  /\ size \in Sizes
  /\ view = "full"
  /\ positions = EmptyPositions
  /\ searchTerm = ""
  /\ isDragging = FALSE
  /\ dragStartRef = [x |-> 0, y |-> 0]
  /\ animationFrameRef = 0
  /\ frames = {}
  /\ nextFrameId = 1
  /\ pending = {"reconcile", "layout"}
  /\ hasCleanup = FALSE
  /\ layoutSize = <<0, 0>>
  /\ reconcileSize = <<0, 0>>
  /\ reconcileResult = EmptyPositions
  /\ crashed = FALSE
  /\ lastEvent = Event("mount", 0, 0, 0)
  /\ nProps = 0
  /\ nTicks = 0
  /\ nInputs = 0

\* The component's own state after the first render.
InitLocal == InitViewer /\ variant = "current"

\* The first render with the host's initial graph and ontology.
InitComponent ==
  /\ graph = InitialGraph
  /\ valueOntology = InitialOntology
  /\ InitLocal

\* The state after the first render: useState({ k: 1, x: 0, y: 0 }).
Init == InitComponent /\ transform = IdentityTransform

\* cancelAnimationFrame that cancels nothing.
CancelNothing(fs, id) == fs

\* A variant that cancels the frame requested before the one named.
CancelOlder(fs, id) == { f \in fs : f.id # id - 1 }

\* cancelAnimationFrame(id)
Cancel(fs, id) == { f \in fs : f.id # id }

\* ------------------------------------------------------------ host and view

\* A variant of SetGraph that also resets the viewport.
SetGraphResetTransform(g) ==
  /\ ~crashed /\ pending = {}
  /\ mounted
  /\ UNCHANGED << organic, selection, hoveredNode, mounted, variant >>
  /\ graph' = g
  /\ pending' = {"reconcile", "layout"}
  /\ lastEvent' = Event("setGraph", 0, 0, 0)
  /\ transform' = IdentityTransform
  /\ UNCHANGED << valueOntology, size, view, positions, animationFrameRef, frames,
                  nextFrameId, hasCleanup, layoutSize, reconcileSize, reconcileResult >>
  /\ UNCHANGED << isDragging, dragStartRef, searchTerm, crashed >>

\* The host supplies a new graph object: both effects depend on it.
SetGraph(g) ==
  /\ ~crashed /\ pending = {}
  /\ mounted
  /\ UNCHANGED << organic, selection, hoveredNode, mounted, variant >>
  /\ graph' = g
  /\ pending' = {"reconcile", "layout"}
  /\ lastEvent' = Event("setGraph", 0, 0, 0)
  /\ UNCHANGED << valueOntology, size, view, positions, animationFrameRef, frames,
                  nextFrameId, hasCleanup, layoutSize, reconcileSize, reconcileResult >>
  /\ UNCHANGED << viewVars, searchTerm, crashed >>

\* The host supplies a new valueOntology object.  In full view filteredGraph
\* stays the same object (graph), so only the layout effect depends on it.
SetValueOntology(vo) ==
  /\ ~crashed /\ pending = {}
  /\ mounted
  /\ UNCHANGED << organic, selection, hoveredNode, mounted, variant >>
  /\ valueOntology' = vo
  /\ pending' = IF view = "ontology" THEN {"reconcile", "layout"} ELSE {"layout"}
  /\ lastEvent' = Event("setValueOntology", 0, 0, 0)
  /\ UNCHANGED << graph, size, view, positions, animationFrameRef, frames,
                  nextFrameId, hasCleanup, layoutSize, reconcileSize, reconcileResult >>
  /\ UNCHANGED << viewVars, searchTerm, crashed >>

\* A click on a view toggle button; setView with the current value re-renders nothing.
SetView(v) ==
  /\ ~crashed /\ pending = {}
  /\ mounted
  /\ UNCHANGED << organic, selection, hoveredNode, mounted, variant >>
  /\ v # view
  /\ view' = v
  /\ pending' = {"reconcile", "layout"}
  /\ lastEvent' = Event("setView", 0, 0, 0)
  /\ UNCHANGED << graph, valueOntology, size, positions, animationFrameRef, frames,
                  nextFrameId, hasCleanup, layoutSize, reconcileSize, reconcileResult >>
  /\ UNCHANGED << viewVars, searchTerm, crashed >>

\* The container is laid out at another size; no effect depends on the size.
Resize(s) ==
  /\ ~crashed /\ pending = {}
  /\ mounted
  /\ UNCHANGED << organic, selection, hoveredNode, mounted, variant >>
  /\ s # size
  /\ size' = s
  /\ lastEvent' = Event("resize", 0, 0, 0)
  /\ UNCHANGED << graph, valueOntology, view, positions, animationFrameRef, frames,
                  nextFrameId, pending, hasCleanup, layoutSize, reconcileSize, reconcileResult >>
  /\ UNCHANGED << viewVars, searchTerm, crashed >>

\* ------------------------------------------------------------ effects

\* A variant of the layout effect that places only the nodes without an entry.
LayoutEffectPositionsKeepOld(reconciled, v, fg, vo, w, h) ==
  IF v = "ontology"
  THEN [id \in DOMAIN OntologyPositions(fg, vo, w, h) |->
          IF id \in DOMAIN reconciled
          THEN reconciled[id] ELSE OntologyPositions(fg, vo, w, h)[id]]
  ELSE reconciled

\* The positions after the layout effect ran with a non-zero size: the ontology
\* branch replaces them, the full branch leaves them to the stepping loop.
LayoutEffectPositions(reconciled, v, fg, vo, w, h) ==
  IF v = "ontology" THEN OntologyPositions(fg, vo, w, h) ELSE reconciled

\* A variant of the size guard that never returns early.
ZeroSizeNever(w, h) == FALSE

\* if (width === 0 || height === 0) return;
ZeroSize(w, h) == w = 0 \/ h = 0

\* React flushes the pending passive effects: the cleanup of the previous
\* layout effect, the reconcile effect, the layout effect.
FlushEffects ==
  /\ ~crashed /\ mounted /\ pending # {}
  /\ LET w == size[1]
         h == size[2]
         fg == FilteredGraph
         nonzero == ~ZeroSize(w, h)
         runReconcile == "reconcile" \in pending /\ nonzero
         runLayout == "layout" \in pending
         cleaned == IF runLayout /\ hasCleanup
                    THEN Cancel(frames, animationFrameRef) ELSE frames
     IN \E stream \in RandomStreams :
          LET reconciled == IF runReconcile
                            THEN Reconcile(positions, fg.nodes, w, h, stream)
                            ELSE positions
          IN /\ reconcileResult' = IF runReconcile THEN reconciled ELSE reconcileResult
             /\ reconcileSize' = IF "reconcile" \in pending THEN size ELSE reconcileSize
             /\ lastEvent' =
                  IF runReconcile
                  THEN Event("effects",
                             Cardinality(DOMAIN positions \ Ids(fg.nodes)),
                             Cardinality(Ids(fg.nodes) \ DOMAIN positions), 1)
                  ELSE Event("effects", 0, 0, 0)
             /\ IF ~runLayout
                THEN /\ positions' = reconciled
                     /\ UNCHANGED << frames, animationFrameRef, nextFrameId,
                                     hasCleanup, layoutSize >>
                ELSE IF ~nonzero
                THEN /\ positions' = reconciled
                     /\ frames' = cleaned
                     /\ hasCleanup' = FALSE
                     /\ layoutSize' = size
                     /\ UNCHANGED << animationFrameRef, nextFrameId >>
                ELSE IF view = "ontology"
                THEN /\ positions' = LayoutEffectPositions(reconciled, view, fg,
                                                           valueOntology, w, h)
                     /\ frames' = IF animationFrameRef # 0
                                  THEN Cancel(cleaned, animationFrameRef) ELSE cleaned
                     /\ hasCleanup' = FALSE
                     /\ layoutSize' = size
                     /\ UNCHANGED << animationFrameRef, nextFrameId >>
                ELSE /\ positions' = LayoutEffectPositions(reconciled, view, fg,
                                                           valueOntology, w, h)
                     /\ frames' = cleaned \cup
                                    {[id |-> nextFrameId, fg |-> fg, w |-> w, h |-> h]}
                     /\ animationFrameRef' = nextFrameId
                     /\ nextFrameId' = nextFrameId + 1
                     /\ hasCleanup' = TRUE
                     /\ layoutSize' = size
  /\ pending' = {}
  /\ organic' = IF view = "ontology"
                THEN IF organic.away THEN organic
                     ELSE [away |-> TRUE, graph |-> graph, positions |-> positions]
                ELSE NoOrganic
  /\ UNCHANGED << selection, hoveredNode, mounted, variant >>
  /\ UNCHANGED << graph, valueOntology, size, view >>
  /\ UNCHANGED << viewVars, searchTerm, crashed, counters >>

\* The browser runs the animation-frame callback f: updatePositions queues its
\* updater and requests the next frame.
Tick(f) ==
  /\ ~crashed
  /\ UNCHANGED << organic, selection, hoveredNode, mounted, variant >>
  /\ f \in frames
  /\ positions' = updatePositions(positions, f.fg, f.w, f.h)
  /\ frames' = (frames \ {f}) \cup {[f EXCEPT !.id = nextFrameId]}
  /\ animationFrameRef' = nextFrameId
  /\ nextFrameId' = nextFrameId + 1
  /\ lastEvent' = Event("tick", f.w, f.h, 0)
  /\ UNCHANGED << graph, valueOntology, size, view, pending, hasCleanup,
                  layoutSize, reconcileSize, reconcileResult >>
  /\ UNCHANGED << viewVars, searchTerm, crashed >>

\* ------------------------------------------------------------ input events

HandleWheel(c, deltaY) ==
  /\ ~crashed
  /\ mounted
  /\ UNCHANGED << organic, selection, hoveredNode, mounted, variant >>
  /\ transform' = WheelTransform(transform, SvgPoint(c), deltaY)
  /\ lastEvent' = Event("wheel", SvgPoint(c).x, SvgPoint(c).y, deltaY)
  /\ UNCHANGED << isDragging, dragStartRef, searchTerm, crashed, layoutVars >>

HandleMouseDown(c) ==
  /\ ~crashed
  /\ mounted
  /\ UNCHANGED << organic, selection, hoveredNode, mounted, variant >>
  /\ isDragging' = TRUE
  /\ dragStartRef' = [x |-> c[1] - transform.x, y |-> c[2] - transform.y]
  /\ lastEvent' = Event("mousedown", c[1], c[2], 0)
  /\ UNCHANGED << transform, searchTerm, crashed, layoutVars >>

HandleMouseMove(c) ==
  /\ ~crashed
  /\ mounted
  /\ UNCHANGED << organic, selection, hoveredNode, mounted, variant >>
  /\ transform' = MoveTransform(transform, isDragging, c, dragStartRef)
  /\ lastEvent' = Event("mousemove", c[1], c[2], 0)
  /\ UNCHANGED << isDragging, dragStartRef, searchTerm, crashed, layoutVars >>

\* onMouseUp and onMouseLeave both call handleMouseUp.
HandleMouseUp(type) ==
  /\ ~crashed
  /\ mounted
  /\ UNCHANGED << organic, selection, hoveredNode, mounted, variant >>
  /\ isDragging' = FALSE
  /\ lastEvent' = Event(type, 0, 0, 0)
  /\ UNCHANGED << transform, dragStartRef, searchTerm, crashed, layoutVars >>

\* A variant with the search box rendered in both views.
SetSearchTermAnyView(s) ==
  /\ ~crashed /\ pending = {}
  /\ mounted
  /\ UNCHANGED << organic, selection, hoveredNode, mounted, variant >>
  /\ s # searchTerm
  /\ searchTerm' = s
  /\ crashed' = HighlightThrows(s, view)
  /\ frames' = IF crashed' /\ hasCleanup
               THEN Cancel(frames, animationFrameRef) ELSE frames
  /\ lastEvent' = Event("search", 0, 0, 0)
  /\ UNCHANGED << graph, valueOntology, size, view, positions, animationFrameRef,
                  nextFrameId, pending, hasCleanup, layoutSize, reconcileSize, reconcileResult >>
  /\ UNCHANGED viewVars

\* The search box, rendered in full view only.  The render that follows
\* recomputes the highlight memo; when it throws React unmounts the tree and
\* runs the layout effect's cleanup.
SetSearchTerm(s) ==
  /\ ~crashed /\ pending = {}
  /\ mounted
  /\ UNCHANGED << organic, selection, hoveredNode, mounted, variant >>
  /\ view = "full"
  /\ s # searchTerm
  /\ searchTerm' = s
  /\ crashed' = HighlightThrows(s, view)
  /\ frames' = IF crashed' /\ hasCleanup
               THEN Cancel(frames, animationFrameRef) ELSE frames
  /\ lastEvent' = Event("search", 0, 0, 0)
  /\ UNCHANGED << graph, valueOntology, size, view, positions, animationFrameRef,
                  nextFrameId, pending, hasCleanup, layoutSize, reconcileSize, reconcileResult >>
  /\ UNCHANGED viewVars

\* ------------------------------------------------------------ specifications

PropStep(A, max) ==
  nProps < max /\ A /\ nProps' = nProps + 1 /\ UNCHANGED << nTicks, nInputs >>

TickStep(A, max) ==
  nTicks < max /\ A /\ nTicks' = nTicks + 1 /\ UNCHANGED << nProps, nInputs >>

InputStep(A, max) ==
  nInputs < max /\ A /\ nInputs' = nInputs + 1 /\ UNCHANGED << nProps, nTicks >>

\* The whole component.
Next ==
  \/ \E g \in Graphs : PropStep(SetGraph(g), MaxProps)
  \/ \E vo \in ValueOntologies : PropStep(SetValueOntology(vo), MaxProps)
  \/ \E v \in {"full", "ontology"} : PropStep(SetView(v), MaxProps)
  \/ \E s \in Sizes : PropStep(Resize(s), MaxProps)
  \/ FlushEffects
  \/ \E f \in frames : TickStep(Tick(f), MaxTicks)
  \/ \E c \in ClientPoints, deltaY \in {-1, 1} : InputStep(HandleWheel(c, deltaY), MaxInputs)
  \/ \E c \in ClientPoints : InputStep(HandleMouseDown(c), MaxInputs)
  \/ \E c \in ClientPoints : InputStep(HandleMouseMove(c), MaxInputs)
  \/ \E type \in {"mouseup", "mouseleave"} : InputStep(HandleMouseUp(type), MaxInputs)
  \/ \E s \in SearchTerms : InputStep(SetSearchTerm(s), MaxInputs)

Spec == Init /\ [][Next]_vars

\* The graph, the effects, the stepping loop and the search box, without the
\* pointer handlers (which leave the variables of the layout alone).
NextLayout ==
  \/ \E g \in Graphs : PropStep(SetGraph(g), MaxChanges)
  \/ \E vo \in ValueOntologies : PropStep(SetValueOntology(vo), MaxChanges)
  \/ \E v \in {"full", "ontology"} : PropStep(SetView(v), MaxChanges)
  \/ \E s \in Sizes : PropStep(Resize(s), MaxChanges)
  \/ FlushEffects
  \/ \E f \in frames : TickStep(Tick(f), MaxLayoutTicks)
  \/ \E s \in SearchTerms : PropStep(SetSearchTerm(s), MaxChanges)

SpecLayout == Init /\ [][NextLayout]_vars

\* The pan and zoom handlers alone, any number of events, the translation
\* kept within MaxPan pixels.
InPanRange(t) == Abs(t.x) <= MaxPan /\ Abs(t.y) <= MaxPan

NextTransform ==
  \/ \E c \in ClientPoints, deltaY \in {-1, 1} :
       HandleWheel(c, deltaY) /\ InPanRange(transform') /\ UNCHANGED counters
  \/ \E c \in ClientPoints : HandleMouseDown(c) /\ UNCHANGED counters
  \/ \E c \in ClientPoints :
       HandleMouseMove(c) /\ InPanRange(transform') /\ UNCHANGED counters
  \/ \E type \in {"mouseup", "mouseleave"} : HandleMouseUp(type) /\ UNCHANGED counters

SpecTransform == Init /\ [][NextTransform]_vars

\* One wheel event on a viewport that earlier wheel and drag events left
\* anywhere: scales on the chains k * 1.1^n and k / 1.1^n from 1 and at both
\* ends of the range, translations and pointers hundreds of pixels apart.
ZoomScales == {KMin, 102, 909, KOne, 1331, 4594, KMax}

ZoomOffsets == {-200, 0, 150}

ZoomClientPoints == {<<19, 9>>, <<119, 309>>, <<419, 59>>}

ZoomTransforms ==
  { [k |-> k, x |-> x, y |-> y] : k \in ZoomScales, x \in ZoomOffsets, y \in ZoomOffsets }

InitZoom == InitComponent /\ transform \in ZoomTransforms

NextZoom ==
  \E c \in ZoomClientPoints, deltaY \in {-1, 1} :
    lastEvent.type = "mount" /\ HandleWheel(c, deltaY) /\ UNCHANGED counters

SpecZoom == InitZoom /\ [][NextZoom]_vars

\* ------------------------------------------------------------ properties

NonZero(s) == ~(s[1] = 0 \/ s[2] = 0)

\* The step is a flush of the effects in which the reconcile updater ran.
ReconcileStep == lastEvent'.type = "effects" /\ lastEvent'.d = 1

\* C1: when the reconcile effect runs with a non-zero container size and every
\* node of the new displayed graph already has an entry in the kinetic state,
\* the result holds exactly the new graph's node ids, each with the entry
\* (position and velocity) it had before.
C1_ReconcileNoAdditions ==
  [][ (ReconcileStep /\ Ids(FilteredGraph.nodes) \subseteq DOMAIN positions)
      => /\ DOMAIN reconcileResult' = Ids(FilteredGraph.nodes)
         /\ \A id \in DOMAIN reconcileResult' : reconcileResult'[id] = positions[id]
    ]_vars

\* C1 witness: a reconcile run that dropped entries, added none and carried
\* over an entry the stepping loop has moved.
C1_Witness ==
  /\ lastEvent.type = "effects" /\ lastEvent.d = 1
  /\ lastEvent.a > 0 /\ lastEvent.b = 0
  /\ \E id \in DOMAIN reconcileResult : reconcileResult[id].vx # 0

\* C2: when the reconcile effect runs with a non-zero container size, every
\* node present before keeps its entry, every new node gets zero velocity and
\* a position with 0 <= x <= width and 0 <= y <= height, and the same node set
\* leaves the kinetic state as it was.
C2_ReconcileWithAdditions ==
  [][ ReconcileStep
      => /\ \A id \in Ids(FilteredGraph.nodes) :
              IF id \in DOMAIN positions
              THEN reconcileResult'[id] = positions[id]
              ELSE /\ reconcileResult'[id].id = id
                   /\ reconcileResult'[id].vx = 0 /\ reconcileResult'[id].vy = 0
                   /\ 0 <= reconcileResult'[id].x /\ reconcileResult'[id].x <= size[1] * Q
                   /\ 0 <= reconcileResult'[id].y /\ reconcileResult'[id].y <= size[2] * Q
         /\ (Ids(FilteredGraph.nodes) = DOMAIN positions => reconcileResult' = positions)
    ]_vars

\* C2 witness: a reconcile run that added a node at a position inside the
\* container next to an entry the stepping loop has moved.
C2_Witness ==
  /\ lastEvent.type = "effects" /\ lastEvent.d = 1 /\ lastEvent.b > 0
  /\ \E id \in DOMAIN reconcileResult : reconcileResult[id].vx # 0
  /\ \E id \in DOMAIN reconcileResult :
       reconcileResult[id].vx = 0 /\ reconcileResult[id].vy = 0 /\ reconcileResult[id].x > 0

\* C3 as stated: once the pending effects have run, the kinetic state holds
\* exactly the node ids of the displayed (filtered) graph.
C3_Original ==
  pending = {} => DOMAIN positions = Ids(FilteredGraph.nodes)

\* C3 amended: once the pending effects have run, the kinetic state holds
\* exactly the node ids of the displayed (filtered) graph, provided the
\* container had non-zero width and height when the reconcile effect last ran
\* (with a zero-size container that effect returns early and the kinetic state
\* stays as it was).
C3_KineticStateLifecycle ==
  (pending = {} /\ NonZero(reconcileSize))
    => DOMAIN positions = Ids(FilteredGraph.nodes)

\* C3 witness: the effects have run after a change that removed nodes and
\* added others while the stepping loop was running.
C3_Witness ==
  /\ pending = {} /\ NonZero(reconcileSize)
  /\ lastEvent.type = "effects" /\ lastEvent.a > 0 /\ lastEvent.b > 0
  /\ nTicks > 0
  /\ positions # EmptyPositions

\* C4 as stated: after a tick every entry has 10 <= x <= width - 10 and
\* 10 <= y <= height - 10, whatever non-zero size was measured.
C4_Original ==
  lastEvent.type = "tick"
    => \A id \in DOMAIN positions :
         /\ margin * Q <= positions[id].x
         /\ positions[id].x <= (lastEvent.a - margin) * Q
         /\ margin * Q <= positions[id].y
         /\ positions[id].y <= (lastEvent.b - margin) * Q

\* C4 amended: after a tick every entry has 10 <= x <= max(10, width - 10) and
\* 10 <= y <= max(10, height - 10), width and height being the size the layout
\* effect measured when it started the loop; in a container narrower or lower
\* than 20 the coordinate is pinned at 10.
C4_BoundedPositions ==
  lastEvent.type = "tick"
    => \A id \in DOMAIN positions :
         /\ margin * Q <= positions[id].x
         /\ positions[id].x <= Max(margin * Q, (lastEvent.a - margin) * Q)
         /\ margin * Q <= positions[id].y
         /\ positions[id].y <= Max(margin * Q, (lastEvent.b - margin) * Q)

\* C4 witness: a tick in a 60 x 40 container left one node on the left margin
\* and another strictly inside.
C4_Witness ==
  /\ lastEvent.type = "tick" /\ lastEvent.a = 60 /\ lastEvent.b = 40
  /\ \E id \in DOMAIN positions : positions[id].x = margin * Q
  /\ \E id \in DOMAIN positions :
       margin * Q < positions[id].x /\ positions[id].x < (60 - margin) * Q

\* The edges of the displayed graph with an endpoint outside the kinetic state.
DanglingEdges ==
  { i \in DOMAIN FilteredGraph.edges :
      ~EdgeApplies(positions, FilteredGraph.edges[i]) }

WithoutDanglingEdges ==
  [FilteredGraph EXCEPT
     !.edges = SelectSeq(FilteredGraph.edges, LAMBDA e : EdgeApplies(positions, e))]

\* C5: with an edge whose source or target has no entry in the kinetic state,
\* a tick followed by a render completes without throwing, the edge adds no
\* impulse to any node and the render leaves it out.
C5_DanglingEdgeSafety ==
  (pending = {} /\ DanglingEdges # {})
    => /\ ~crashed
       /\ \A i \in DanglingEdges : FilteredGraph.edges[i].id \notin RenderedEdgeIds(FilteredGraph, positions)
       /\ updatePositions(positions, FilteredGraph, size[1], size[2])
            = updatePositions(positions, WithoutDanglingEdges, size[1], size[2])

\* (p - t') / k' = (p - t) / k up to the rounding of t' to a whole pixel:
\* |(p - t') * k - (p - t) * k'| <= k / 2.
SamePoint(p, t, k, newT, newK) ==
  2 * Abs((p - newT) * k - (p - t) * newK) <= k

\* C6: a wheel event at svg point p takes the transform (k, x, y) to
\* (k', x', y') with (p - x') / k' = (p - x) / k on both axes, also when k' was
\* clamped: the graph point under the cursor stays under the cursor.
C6_ZoomTowardCursor ==
  [][ lastEvent'.type = "wheel"
      => /\ SamePoint(lastEvent'.a, transform.x, transform.k, transform'.x, transform'.k)
         /\ SamePoint(lastEvent'.b, transform.y, transform.k, transform'.y, transform'.k)
    ]_vars

\* C6 witness: a wheel event away from the origin whose scale was clamped
\* at the maximum and that moved the translation on both axes.
C6_Witness ==
  /\ lastEvent.type = "wheel" /\ lastEvent.d = -1
  /\ lastEvent.a > 0 /\ lastEvent.b > 0
  /\ transform.k = KMax
  /\ transform.x \notin ZoomOffsets /\ transform.y \notin ZoomOffsets

\* C7: from the identity transform k stays within [0.1, 5] under any sequence
\* of wheel events, and each wheel event takes k to k * 1.1 (deltaY < 0) or
\* k / 1.1 (otherwise), up to the rounding of k to a thousandth, cut to the range.
C7_ZoomRange ==
  /\ [](KMin <= transform.k /\ transform.k <= KMax)
  /\ [][ lastEvent'.type = "wheel"
         => IF lastEvent'.d < 0
            THEN \/ transform'.k = KMax /\ 2 * (10 * KMax - 11 * transform.k) <= 10
                 \/ transform'.k < KMax /\ 2 * Abs(10 * transform'.k - 11 * transform.k) <= 10
            ELSE \/ transform'.k = KMin /\ 2 * (10 * transform.k - 11 * KMin) <= 11
                 \/ transform'.k > KMin /\ 2 * Abs(11 * transform'.k - 10 * transform.k) <= 11
       ]_vars

\* C7 witness: a zoom-in wheel event during a drag left k at the maximum.
C7_Witness ==
  /\ lastEvent.type = "wheel" /\ lastEvent.d = -1
  /\ transform.k = KMax
  /\ isDragging

\* C8: a mouse-move never changes k, and a mouse-move while not dragging
\* changes nothing of the transform.
C8_PanPureTranslation ==
  [][ lastEvent'.type = "mousemove"
      => /\ transform'.k = transform.k
         /\ (~isDragging => transform' = transform)
    ]_vars

\* C8 witness: a mouse-move during a drag on a zoomed viewport moved the
\* translation.
C8_Witness ==
  /\ lastEvent.type = "mousemove" /\ isDragging
  /\ transform.k # KOne
  /\ transform.x # 0 /\ transform.y # 0

\* C9: only wheel events and mouse-moves change the transform: graph, ontology,
\* view and size changes, the effects, ticks, mouse-down, mouse-up and the
\* search box leave it as it was.
C9_TransformIndependentOfLayout ==
  [][ lastEvent'.type \notin {"wheel", "mousemove"} => transform' = transform ]_vars

\* C9 witness: a tick of the loop restarted for a replaced graph, on a zoomed
\* viewport.
C9_Witness ==
  /\ lastEvent.type = "tick"
  /\ graph # InitialGraph
  /\ transform # IdentityTransform
  /\ positions # EmptyPositions

\* C10: in ontology view, once the effects have run with a non-zero container
\* size, the positions are the radial layout of the filtered node list, the
\* ontology scores and the measured width and height, whatever the kinetic
\* state and the random seeds were before.
C10_RadialLayoutDeterminism ==
  (view = "ontology" /\ pending = {} /\ NonZero(layoutSize))
    => positions = OntologyPositions(FilteredGraph, valueOntology, layoutSize[1], layoutSize[2])

\* C10 witness: the radial layout of luminous and two value nodes, computed
\* after the stepping loop had moved the entries the reconcile effect kept.
C10_Witness ==
  /\ view = "ontology" /\ pending = {} /\ NonZero(layoutSize)
  /\ Cardinality(DOMAIN positions) >= 3
  /\ \E id \in DOMAIN reconcileResult : reconcileResult[id].vx # 0

\* ------------------------------------------------------------ radial inputs

\* Graphs for the radial layout: luminous typed architecture or value, absent,
\* or listed after a value node; edges with a weight in thousandths (positive,
\* negative, zero) or without one.
RadialEdges ==
  << [id |-> "e1", source |-> "luminous", target |-> "truth", weight |-> 1000],
     [id |-> "e2", source |-> "luminous", target |-> "coherence", weight |-> -500],
     [id |-> "e3", source |-> "truth", target |-> "coherence", weight |-> 0],
     [id |-> "e4", source |-> "truth", target |-> "luminous"] >>

RadialNodeLists ==
  { << [id |-> "luminous", label |-> "Luminous", type |-> "architecture"],
       [id |-> "truth", label |-> "Truth", type |-> "value"],
       [id |-> "coherence", label |-> "coherence", type |-> "value"] >>,
    << [id |-> "luminous", label |-> "Luminous", type |-> "value"],
       [id |-> "truth", label |-> "Truth", type |-> "value"] >>,
    << [id |-> "truth", label |-> "Truth", type |-> "value"],
       [id |-> "luminous", label |-> "Luminous", type |-> "value"],
       [id |-> "coherence", label |-> "coherence", type |-> "value"] >>,
    << [id |-> "truth", label |-> "Truth", type |-> "value"] >> }

RadialGraphs == { [nodes |-> ns, edges |-> RadialEdges] : ns \in RadialNodeLists }

\* Importance scores inside and outside [0, 1], in thousandths.
RadialOntologies ==
  { << [k |-> "Truth", v |-> 950], [k |-> "Coherence", v |-> 900] >>,
    << [k |-> "Truth", v |-> 1500], [k |-> "Coherence", v |-> 2000] >>,
    << [k |-> "Truth", v |-> -200], [k |-> "coherence", v |-> 1000] >>,
    << [k |-> "Luminous", v |-> 1000], [k |-> "Truth", v |-> 500] >> }

\* SpecRadial: the numbers of view switches and of animation-frame callbacks.
MaxRadialChanges == 2

MaxRadialTicks == 1

InitRadial ==
  /\ graph \in RadialGraphs
  /\ valueOntology \in RadialOntologies
  /\ InitLocal
  /\ transform = IdentityTransform

\* The view switch over any graph and ontology the host may have supplied.
NextRadial ==
  \/ \E v \in {"full", "ontology"} : PropStep(SetView(v), MaxRadialChanges)
  \/ FlushEffects
  \/ \E f \in frames : TickStep(Tick(f), MaxRadialTicks)

SpecRadial == InitRadial /\ [][NextRadial]_vars

\* The effects of the current render have run, in ontology view, with a
\* non-zero container size.
RadialApplied == view = "ontology" /\ pending = {} /\ NonZero(layoutSize)

\* C11: in ontology view, for every graph that contains the node with id
\* luminous, whatever its type and label, that node is placed exactly at
\* (width / 2, height / 2).
C11_RadialLayoutCentre ==
  (RadialApplied /\ "luminous" \in Ids(graph.nodes))
    => /\ "luminous" \in DOMAIN positions
       /\ positions["luminous"].x = RDiv(layoutSize[1] * Q, 2)
       /\ positions["luminous"].y = RDiv(layoutSize[2] * Q, 2)

\* The value nodes the ontology branch places, and their distance from the
\* centre of the container measured by the layout effect.
PlacedValueNodes == SelectSeq(FilteredGraph.nodes, LAMBDA n : n.type = "value")

CentreDistance(id) ==
  LET dx == positions[id].x - RDiv(layoutSize[1] * Q, 2)
      dy == positions[id].y - RDiv(layoutSize[2] * Q, 2)
  IN Sqrt(dx * dx + dy * dy)

\* R * (1.1 - importance) with R = min(width, height) / 2.5
RadialDistance(importance) ==
  RDiv(RDiv(Min(layoutSize[1], layoutSize[2]) * Q * 2, 5) * (1100 - importance), KOne)

\* C12: in ontology view, of two value nodes the one with the higher
\* importance is strictly closer to the centre, and each value node is at
\* distance R * (1.1 - importance) from it, R = min(width, height) / 2.5
\* (up to the rounding of positions to the grid).
C12_RadialImportanceOrdering ==
  RadialApplied
    => \A i, j \in 1..Len(PlacedValueNodes) :
         LET a == PlacedValueNodes[i]
             b == PlacedValueNodes[j]
         IN /\ Abs(CentreDistance(a.id) - RadialDistance(valueScore(valueOntology, a.label))) <= 2
            /\ valueScore(valueOntology, a.label) > valueScore(valueOntology, b.label)
                 => CentreDistance(a.id) < CentreDistance(b.id)

\* getNodeRadius, in thousandths of a pixel.
getNodeRadius(v, vo, node, isHighlighted) ==
  IF v = "ontology" /\ node.type = "value"
  THEN 6000 + valueScore(vo, node.label) * 10
  ELSE IF isHighlighted THEN 10000 ELSE 7000

\* strokeWidth={0.5 + (edge.weight || 0.5)}, in thousandths: a missing weight
\* and a weight of 0 are both falsy.
strokeWidth(edge) ==
  500 + (IF "weight" \in DOMAIN edge /\ edge.weight # 0 THEN edge.weight ELSE 500)

\* A score cut to [0, 1], in thousandths.
ClampScore(score) == Max(0, Min(KOne, score))

\* C13: an importance score below 0 or above 1 counts as 0 or 1 in a value
\* node's radial distance and circle radius, and a negative edge weight counts
\* as 0 in the stroke width.
C13_OutOfRangeInputsClamped ==
  /\ RadialApplied
       => \A i \in 1..Len(PlacedValueNodes) :
            LET a == PlacedValueNodes[i]
                score == ClampScore(valueScore(valueOntology, a.label))
            IN /\ Abs(CentreDistance(a.id) - RadialDistance(score)) <= 2
               /\ getNodeRadius(view, valueOntology, a, FALSE) = 6000 + score * 10
  /\ (pending = {} /\ ~crashed)
       => \A i \in 1..Len(FilteredGraph.edges) :
            LET e == FilteredGraph.edges[i]
            IN ("weight" \in DOMAIN e /\ e.id \in RenderedEdgeIds(FilteredGraph, positions))
                 => strokeWidth(e) = strokeWidth([e EXCEPT !.weight = Max(0, e.weight)])

\* The effects of the current render have run, in ontology view.
OntologySettled == view = "ontology" /\ pending = {}

\* C14 as stated: once the switch to ontology view has been applied no
\* animation-frame callback is pending and the positions are exactly the
\* radial placement.
C14_Original ==
  OntologySettled
    => /\ frames = {}
       /\ positions = OntologyPositions(FilteredGraph, valueOntology,
                                        layoutSize[1], layoutSize[2])

\* C14 amended: once the switch to ontology view has been applied no
\* animation-frame callback is pending, no step changes the positions until the
\* view, the graph or the ontology changes, and the positions are the radial
\* placement provided the container measured non-zero width and height when
\* the layout effect ran (otherwise they stay as full view left them).
C14_RadialBypassesIntegration ==
  /\ [](OntologySettled
          => /\ frames = {}
             /\ NonZero(layoutSize)
                  => positions = OntologyPositions(FilteredGraph, valueOntology,
                                                   layoutSize[1], layoutSize[2]))
  /\ [][ (OntologySettled /\ OntologySettled') => positions' = positions ]_vars

\* C14 witness: in ontology view, entered while the stepping loop was running,
\* the container was resized and nothing is pending.
C14_Witness ==
  /\ OntologySettled /\ NonZero(layoutSize)
  /\ nTicks > 0
  /\ lastEvent.type = "resize"
  /\ frames = {}
  /\ positions # EmptyPositions

\* C15: while in ontology view, after a view-mode change, a change of the
\* importance scores or a change of the container's width or height, the
\* positions are the radial placement for the current graph, scores and
\* container size.
C15_RadialRecomputationTriggers ==
  (OntologySettled /\ NonZero(size))
    => positions = OntologyPositions(FilteredGraph, valueOntology, size[1], size[2])

AllAtRest == \A id \in DOMAIN positions : positions[id].vx = 0 /\ positions[id].vy = 0

\* C16 as stated: once the switch from full to ontology view has been applied,
\* every node with kinetic state has vx = 0 and vy = 0.
C16_Original == OntologySettled => AllAtRest

\* C16 amended: once the switch from full to ontology view has been applied
\* with a container that measured non-zero width and height, every node with
\* kinetic state has vx = 0 and vy = 0, whatever its velocity was in full
\* view; with a zero-size container the kinetic state keeps its velocities.
C16_EnteringRadialZeroesVelocities ==
  (OntologySettled /\ NonZero(layoutSize)) => AllAtRest

\* C16 witness: the switch has just been applied to a node that was moving in
\* full view.
C16_Witness ==
  /\ OntologySettled /\ NonZero(layoutSize)
  /\ lastEvent.type = "effects"
  /\ organic.away
  /\ \E id \in DOMAIN organic.positions \cap DOMAIN positions :
       organic.positions[id].vx # 0 /\ organic.positions[id].vy # 0

\* C17: after full -> ontology -> full with an unchanged graph, every node
\* that had a position immediately before ontology view was entered resumes
\* from that position; only nodes that had none are seeded randomly.
C17_ReturnToOrganicResumes ==
  [][ (lastEvent'.type = "effects" /\ view = "full" /\ organic.away
       /\ organic.graph = graph)
      => \A id \in DOMAIN organic.positions :
           /\ id \in DOMAIN positions'
           /\ positions'[id].x = organic.positions[id].x
           /\ positions'[id].y = organic.positions[id].y
    ]_vars

\* ------------------------------------------------------------ search highlight

\* String.prototype.includes on the lower-cased labels and terms of the model.
Includes(s, t) == t = "" \/ s = t \/ (t = "tru" /\ s = "truth")

\* The nodes whose label contains the term (matchingNodeIds before expansion).
LabelMatches(term, fg) ==
  { fg.nodes[i].id : i \in { j \in 1..Len(fg.nodes) :
        Includes(ToLowerCase(fg.nodes[j].label), Trim(ToLowerCase(term))) } }

\* matchingEdgeIds, as indices of fg.edges.
matchingEdges(term, fg) ==
  { i \in 1..Len(fg.edges) :
      \/ fg.edges[i].source \in LabelMatches(term, fg)
      \/ fg.edges[i].target \in LabelMatches(term, fg) }

matchingEdgeIds(term, fg) == { fg.edges[i].id : i \in matchingEdges(term, fg) }

\* matchingNodeIds after the endpoints of the matching edges were added.
matchingNodeIds(term, fg) ==
  LabelMatches(term, fg)
    \cup { fg.edges[i].source : i \in matchingEdges(term, fg) }
    \cup { fg.edges[i].target : i \in matchingEdges(term, fg) }

\* What the highlight memo returns: empty sets for a blank term or ontology
\* view; otherwise its return statement reads highlightedNodeIds and
\* highlightedEdgeIds, not matchingNodeIds and matchingEdgeIds, and throws.
Highlight(term, v, fg) ==
  [threw |-> HighlightThrows(term, v),
   highlightedNodeIds |-> {},
   highlightedEdgeIds |-> {}]

\* C18: in full view, for a non-blank search term, highlightedNodeIds is the
\* set of nodes whose label contains the trimmed term, case-insensitively,
\* with both endpoints of every edge touching such a node, highlightedEdgeIds
\* is the set of edges touching such a node, and computing them does not throw.
C18_SearchHighlighting ==
  (view = "full" /\ Trim(searchTerm) # "")
    => LET h == Highlight(searchTerm, view, FilteredGraph)
           matched == { FilteredGraph.nodes[i].id : i \in { j \in 1..Len(FilteredGraph.nodes) :
                          Includes(ToLowerCase(FilteredGraph.nodes[j].label),
                                   ToLowerCase(Trim(searchTerm))) } }
           touching == { i \in 1..Len(FilteredGraph.edges) :
                           FilteredGraph.edges[i].source \in matched
                             \/ FilteredGraph.edges[i].target \in matched }
       IN /\ ~h.threw
          /\ ~crashed
          /\ h.highlightedEdgeIds = { FilteredGraph.edges[i].id : i \in touching }
          /\ h.highlightedNodeIds =
               matched \cup { FilteredGraph.edges[i].source : i \in touching }
                       \cup { FilteredGraph.edges[i].target : i \in touching }

\* ------------------------------------------------------------ selection

\* A closure that leaves the selected node out unless an edge touches it.
RECURSIVE computeNeighborClosureByEdgesOnly(_, _)
computeNeighborClosureByEdgesOnly(selectedId, edges) ==
  IF edges = << >> THEN [nodeIds |-> {}, edgeIds |-> {}]
  ELSE LET e == Head(edges)
           rest == computeNeighborClosureByEdgesOnly(selectedId, Tail(edges))
       IN IF e.source = selectedId \/ e.target = selectedId
          THEN [nodeIds |-> rest.nodeIds \cup {e.source, e.target},
                edgeIds |-> rest.edgeIds \cup {e.id}]
          ELSE rest

\* computeNeighborClosure(selectedId, edges): one pass over the edges, adding
\* the id and both endpoints of every edge whose source or target is
\* selectedId; selectedId itself is always in the node set.
RECURSIVE computeNeighborClosure(_, _)
computeNeighborClosure(selectedId, edges) ==
  IF edges = << >> THEN [nodeIds |-> {selectedId}, edgeIds |-> {}]
  ELSE LET e == Head(edges)
           rest == computeNeighborClosure(selectedId, Tail(edges))
       IN IF e.source = selectedId \/ e.target = selectedId
          THEN [nodeIds |-> rest.nodeIds \cup {e.source, e.target},
                edgeIds |-> rest.edgeIds \cup {e.id}]
          ELSE rest

\* A click selects a node: the selection state is derived from it.
Select(id) ==
  /\ ~crashed
  /\ selection' = [selectedNodeId |-> id,
                   nodeIds |-> computeNeighborClosure(id, graph.edges).nodeIds,
                   edgeIds |-> computeNeighborClosure(id, graph.edges).edgeIds]
  /\ lastEvent' = Event("select", 0, 0, 0)
  /\ UNCHANGED << graph, valueOntology, size, view, positions, searchTerm, transform,
                  isDragging, dragStartRef, animationFrameRef, frames, nextFrameId,
                  pending, hasCleanup, layoutSize, reconcileSize, reconcileResult,
                  crashed, organic, hoveredNode, mounted, variant >>

\* Edge lists over the nodes A, B, C, D (E has no edge): a chain, a self-loop,
\* a back edge and an edge given twice.
ClosureEdges ==
  << [id |-> "ab", source |-> "A", target |-> "B"],
     [id |-> "bc", source |-> "B", target |-> "C"],
     [id |-> "cd", source |-> "C", target |-> "D"],
     [id |-> "bb", source |-> "B", target |-> "B"],
     [id |-> "da", source |-> "D", target |-> "A"],
     [id |-> "ab2", source |-> "A", target |-> "B"] >>

ClosureNodes ==
  << [id |-> "A", label |-> "A", type |-> "concept"],
     [id |-> "B", label |-> "B", type |-> "concept"],
     [id |-> "C", label |-> "C", type |-> "concept"],
     [id |-> "D", label |-> "D", type |-> "concept"],
     [id |-> "E", label |-> "E", type |-> "concept"] >>

RECURSIVE SubSeqs(_)
SubSeqs(seq) ==
  IF seq = << >> THEN { << >> }
  ELSE LET rest == SubSeqs(Tail(seq))
       IN rest \cup { << Head(seq) >> \o r : r \in rest }

ClosureGraphs == { [nodes |-> ClosureNodes, edges |-> es] : es \in SubSeqs(ClosureEdges) }

InitClosure ==
  /\ graph \in ClosureGraphs
  /\ valueOntology = InitialOntology
  /\ InitLocal
  /\ transform = IdentityTransform

NextClosure == \E id \in Ids(ClosureNodes) : Select(id) /\ UNCHANGED counters

SpecClosure == InitClosure /\ [][NextClosure]_vars

\* The edges of the graph with source or target id, as indices.
Incident(id) ==
  { i \in 1..Len(graph.edges) : graph.edges[i].source = id \/ graph.edges[i].target = id }

\* C19: the neighbor closure of a selected node s is exactly s with every
\* endpoint of an edge whose source or target is s, and exactly those edges;
\* a node two or more edges away is not in it, and s is in it even without edges.
C19_NeighborClosure ==
  selection.selectedNodeId # ""
    => LET sel == selection.selectedNodeId
       IN /\ selection.edgeIds = { graph.edges[i].id : i \in Incident(sel) }
          /\ selection.nodeIds =
               {sel} \cup { graph.edges[i].source : i \in Incident(sel) }
                     \cup { graph.edges[i].target : i \in Incident(sel) }
          /\ sel \in selection.nodeIds
          /\ \A n \in selection.nodeIds \ {sel} :
               \E i \in Incident(sel) : n \in {graph.edges[i].source, graph.edges[i].target}

\* C19 witness: B selected in the chain A-B, B-C, C-D: nodes A, B, C and
\* edges A-B, B-C; D, two edges away, is left out.
C19_Witness ==
  /\ selection.selectedNodeId = "B"
  /\ Len(graph.edges) = 3
  /\ { graph.edges[i].id : i \in 1..3 } = {"ab", "bc", "cd"}
  /\ selection.nodeIds = {"A", "B", "C"}
  /\ selection.edgeIds = {"ab", "bc"}

\* ------------------------------------------------------------ node drag

\* SpecDrag: the numbers of mouse events and of animation-frame callbacks.
MaxDragEvents == 2

MaxDragTicks == 1

\* The mouse handlers over a laid-out graph.
NextDrag ==
  \/ FlushEffects
  \/ \E f \in frames : TickStep(Tick(f), MaxDragTicks)
  \/ \E c \in ClientPoints : InputStep(HandleMouseDown(c), MaxDragEvents)
  \/ \E c \in ClientPoints : InputStep(HandleMouseMove(c), MaxDragEvents)
  \/ \E type \in {"mouseup", "mouseleave"} : InputStep(HandleMouseUp(type), MaxDragEvents)

SpecDrag == Init /\ [][NextDrag]_vars

\* The svg point, in 1/Q pixel, where the node group of pos is drawn:
\* <g transform="translate(t.x, t.y) scale(t.k)"> around translate(pos.x, pos.y).
ScreenX(pos, t) == RDiv(pos.x * t.k, KOne) + t.x * Q

ScreenY(pos, t) == RDiv(pos.y * t.k, KOne) + t.y * Q

\* The node whose circle (radius r = 7 unhighlighted, scaled by k) is under
\* the client point c, as an index of fg.nodes; the node drawn last is on
\* top; 0 when the pointer is over no node.
NodeUnder(c, fg, pos, t) ==
  LET hit == { i \in 1..Len(fg.nodes) :
                 /\ fg.nodes[i].id \in DOMAIN pos
                 /\ LET dx == SvgPoint(c).x * Q - ScreenX(pos[fg.nodes[i].id], t)
                        dy == SvgPoint(c).y * Q - ScreenY(pos[fg.nodes[i].id], t)
                        r == RDiv(getNodeRadius(view, valueOntology, fg.nodes[i], FALSE) * t.k * Q,
                                  KOne * KOne)
                    IN dx * dx + dy * dy <= r * r }
  IN IF hit = {} THEN 0 ELSE CHOOSE i \in hit : \A j \in hit : j <= i

\* The pointer position in model coordinates, in 1/Q pixel: (p - t) / k.
ModelCoordinate(p, translation, k) == RDiv((p - translation) * Q * KOne, k)

\* C20: a mouse-down over a node starts a drag that pins the node: on the
\* mouse-move that follows, the interaction is dragging and the node's model
\* position is the pointer position.
C20_NodeDragStateMachine ==
  [][ (lastEvent.type = "mousedown" /\ lastEvent'.type = "mousemove"
       /\ NodeUnder(<<lastEvent.a, lastEvent.b>>, FilteredGraph, positions, transform) # 0)
      => LET node == FilteredGraph.nodes[
                       NodeUnder(<<lastEvent.a, lastEvent.b>>, FilteredGraph, positions, transform)]
             p == SvgPoint(<<lastEvent'.a, lastEvent'.b>>)
         IN /\ isDragging'
            /\ positions'[node.id].x = ModelCoordinate(p.x, transform'.x, transform'.k)
            /\ positions'[node.id].y = ModelCoordinate(p.y, transform'.y, transform'.k)
    ]_vars

\* ------------------------------------------------------------ zero-size viewport

\* C21: when the effects run while the container measures zero width or
\* height, the kinetic state is left exactly as it was (no reconcile, no radial
\* placement), the loop is not started, and no animation frame stays pending:
\* no tick is applied until the layout is started again.
C21_ZeroSizeNoOp ==
  /\ [][ (lastEvent'.type = "effects" /\ ~NonZero(size))
         => /\ positions' = positions
            /\ frames' = {}
            /\ lastEvent'.d = 0
       ]_vars
  /\ []((pending = {} /\ ~NonZero(layoutSize)) => frames = {})

\* C21 witness: the effects ran in ontology view with a zero-size container
\* and left in place the entries the stepping loop had moved before.
C21_Witness ==
  /\ lastEvent.type = "effects" /\ ~NonZero(size)
  /\ view = "ontology"
  /\ frames = {}
  /\ \E id \in DOMAIN positions : positions[id].vx # 0

\* ------------------------------------------------------------ unmount and hover

\* The host unmounts the viewer: React runs the cleanup of the layout effect.
Unmount ==
  /\ ~crashed /\ mounted /\ pending = {}
  /\ mounted' = FALSE
  /\ frames' = IF hasCleanup THEN Cancel(frames, animationFrameRef) ELSE frames
  /\ lastEvent' = Event("unmount", 0, 0, 0)
  /\ UNCHANGED << graph, valueOntology, size, view, positions, animationFrameRef,
                  nextFrameId, pending, hasCleanup, layoutSize, reconcileSize,
                  reconcileResult >>
  /\ UNCHANGED << viewVars, searchTerm, crashed, organic, selection, hoveredNode,
                  variant >>

\* The nodes the render emits a <g> for: those of the displayed graph with an
\* entry in positions.
RenderedNodes ==
  { FilteredGraph.nodes[i] : i \in { j \in 1..Len(FilteredGraph.nodes) :
        FilteredGraph.nodes[j].id \in DOMAIN positions } }

\* positions[hoveredNode.id].x of the earlier viewer's tooltip: a TypeError when
\* the hovered node has no entry.
EarlierTooltipThrows(hovered, pos) == hovered # Null /\ hovered.id \notin DOMAIN pos

\* onMouseEnter of a node group: setHoveredNode(node).
NodeMouseEnter(node) ==
  /\ ~crashed /\ mounted /\ pending = {}
  /\ node \in RenderedNodes
  /\ hoveredNode' = node
  /\ lastEvent' = Event("nodeenter", 0, 0, 0)
  /\ UNCHANGED << layoutVars, viewVars, searchTerm, crashed, organic, selection,
                  mounted, variant >>

\* onMouseLeave of a node group: setHoveredNode(null).
NodeMouseLeave ==
  /\ ~crashed /\ mounted /\ pending = {}
  /\ hoveredNode # Null
  /\ hoveredNode \in RenderedNodes
  /\ hoveredNode' = Null
  /\ lastEvent' = Event("nodeleave", 0, 0, 0)
  /\ UNCHANGED << layoutVars, viewVars, searchTerm, crashed, organic, selection,
                  mounted, variant >>

\* ------------------------------------------------------------ the earlier viewer

EarlierRepulsion == 1000

\* attraction = 0.02, in hundredths.
EarlierAttraction == 2

\* damping = 0.95, in hundredths.
EarlierDamping == 95

\* centerGravity = 0.01, in hundredths.
EarlierCenterGravity == 1

\* force * (d / distance) with force = repulsion / distance^2.
EarlierRepulsionImpulse(d, dist) ==
  RDiv(EarlierRepulsion * Q * Q * Q * d, dist * dist * dist)

EarlierIntegrate(pos, vx, vy, w, h) ==
  LET nvx == RDiv(vx * EarlierDamping, 100)
      nvy == RDiv(vy * EarlierDamping, 100)
  IN [id |-> pos.id, x |-> Clamp(pos.x + nvx, w), y |-> Clamp(pos.y + nvy, h),
      vx |-> nvx, vy |-> nvy]

\* The updater of one tick of the earlier viewer's updatePositions.
EarlierUpdatePositions(cur, g, w, h) ==
  IF DOMAIN cur = {} THEN EmptyPositions
  ELSE
    LET nodes == g.nodes
        edges == g.edges
        centerX == RDiv(w * Q, 2)
        centerY == RDiv(h * Q, 2)
        Has(id) == id \in DOMAIN cur
        Dist(a, b) == distance(cur[b].x - cur[a].x, cur[b].y - cur[a].y)
        Gravity(center, coordinate) ==
          RDiv((center - coordinate) * EarlierCenterGravity, 100)
        Attract(d) == RDiv(d * EarlierAttraction, 100)
        RepelX(a) ==
          SeqSum([j \in 1..Len(nodes) |->
            LET b == nodes[j].id
            IN IF a = b \/ ~Has(b) THEN 0
               ELSE -EarlierRepulsionImpulse(cur[b].x - cur[a].x, Dist(a, b))])
        RepelY(a) ==
          SeqSum([j \in 1..Len(nodes) |->
            LET b == nodes[j].id
            IN IF a = b \/ ~Has(b) THEN 0
               ELSE -EarlierRepulsionImpulse(cur[b].y - cur[a].y, Dist(a, b))])
        NodeVX(a) ==
          SeqSum([i \in 1..Len(nodes) |->
            IF nodes[i].id = a THEN Gravity(centerX, cur[a].x) + RepelX(a) ELSE 0])
        NodeVY(a) ==
          SeqSum([i \in 1..Len(nodes) |->
            IF nodes[i].id = a THEN Gravity(centerY, cur[a].y) + RepelY(a) ELSE 0])
        EdgeVX(a) ==
          SeqSum([k \in 1..Len(edges) |->
            LET e == edges[k]
            IN IF ~EdgeApplies(cur, e) THEN 0
               ELSE LET dx == cur[e.target].x - cur[e.source].x
                    IN (IF e.source = a THEN Attract(dx) ELSE 0)
                       - (IF e.target = a THEN Attract(dx) ELSE 0)])
        EdgeVY(a) ==
          SeqSum([k \in 1..Len(edges) |->
            LET e == edges[k]
            IN IF ~EdgeApplies(cur, e) THEN 0
               ELSE LET dy == cur[e.target].y - cur[e.source].y
                    IN (IF e.source = a THEN Attract(dy) ELSE 0)
                       - (IF e.target = a THEN Attract(dy) ELSE 0)])
    IN [a \in DOMAIN cur |->
          EarlierIntegrate(cur[a], cur[a].vx + NodeVX(a) + EdgeVX(a),
                           cur[a].vy + NodeVY(a) + EdgeVY(a), w, h)]

\* The earlier viewer's effects: the cleanup of the previous layout effect, the
\* reconcile effect (no size guard), the layout effect, which always starts a
\* loop; then the render with the reconciled positions, which unmounts the
\* tree (running the new cleanup) when the tooltip throws.  The layout effect
\* also depends on containerRef.current, null in the first render only, so it
\* runs again after the first flush.
EarlierFlushEffects ==
  /\ ~crashed /\ mounted /\ pending # {}
  /\ \E stream \in RandomStreams :
       LET cleaned == IF hasCleanup /\ animationFrameRef # 0
                      THEN Cancel(frames, animationFrameRef) ELSE frames
           runReconcile == "reconcile" \in pending
           reconciled == IF runReconcile
                         THEN Reconcile(positions, graph.nodes, size[1], size[2], stream)
                         ELSE positions
           requested == [id |-> nextFrameId, fg |-> graph, w |-> size[1], h |-> size[2]]
       IN /\ positions' = reconciled
          /\ reconcileResult' = IF runReconcile THEN reconciled ELSE reconcileResult
          /\ reconcileSize' = IF runReconcile THEN size ELSE reconcileSize
          /\ crashed' = EarlierTooltipThrows(hoveredNode, reconciled)
          /\ frames' = IF crashed'
                       THEN Cancel(cleaned \cup {requested}, nextFrameId)
                       ELSE cleaned \cup {requested}
          /\ lastEvent' =
               IF runReconcile
               THEN Event("effects",
                          Cardinality(DOMAIN positions \ Ids(graph.nodes)),
                          Cardinality(Ids(graph.nodes) \ DOMAIN positions), 1)
               ELSE Event("effects", 0, 0, 0)
  /\ animationFrameRef' = nextFrameId
  /\ nextFrameId' = nextFrameId + 1
  /\ hasCleanup' = TRUE
  /\ layoutSize' = size
  /\ pending' = IF lastEvent.type = "mount" THEN {"layout"} ELSE {}
  /\ UNCHANGED << graph, valueOntology, size, view >>
  /\ UNCHANGED << viewVars, searchTerm, organic, selection, hoveredNode, mounted,
                  variant, counters >>

\* An animation-frame callback of the earlier viewer.
EarlierTick(f) ==
  /\ ~crashed
  /\ f \in frames
  /\ positions' = EarlierUpdatePositions(positions, f.fg, f.w, f.h)
  /\ frames' = (frames \ {f}) \cup {[f EXCEPT !.id = nextFrameId]}
  /\ animationFrameRef' = nextFrameId
  /\ nextFrameId' = nextFrameId + 1
  /\ lastEvent' = Event("tick", f.w, f.h, 0)
  /\ UNCHANGED << graph, valueOntology, size, view, pending, hasCleanup,
                  layoutSize, reconcileSize, reconcileResult >>
  /\ UNCHANGED << viewVars, searchTerm, crashed, organic, selection, hoveredNode,
                  mounted, variant >>

\* ------------------------------------------------------------ both viewers

\* The numbers of graph, view and size changes and unmounts, of animation-frame
\* callbacks and of hover events of a behaviour of SpecViewers.
MaxViewerChanges == 2

MaxViewerTicks == 1

MaxHovers == 2

InitViewers ==
  /\ graph = InitialGraph
  /\ valueOntology = InitialOntology
  /\ transform = IdentityTransform
  /\ InitViewer
  /\ variant \in {"current", "earlier"}

Current(A) == variant = "current" /\ A

Earlier(A) == variant = "earlier" /\ A

NextViewers ==
  \/ \E g \in Graphs : PropStep(SetGraph(g), MaxViewerChanges)
  \/ \E s \in Sizes : PropStep(Resize(s), MaxViewerChanges)
  \/ PropStep(Unmount, MaxViewerChanges)
  \/ \E node \in RenderedNodes : InputStep(NodeMouseEnter(node), MaxHovers)
  \/ InputStep(NodeMouseLeave, MaxHovers)
  \/ \E vo \in ValueOntologies :
       Current(PropStep(SetValueOntology(vo), MaxViewerChanges))
  \/ \E v \in {"full", "ontology"} : Current(PropStep(SetView(v), MaxViewerChanges))
  \/ Current(FlushEffects)
  \/ \E f \in frames : Current(TickStep(Tick(f), MaxViewerTicks))
  \/ Earlier(EarlierFlushEffects)
  \/ \E f \in frames : Earlier(TickStep(EarlierTick(f), MaxViewerTicks))

SpecViewers == InitViewers /\ [][NextViewers]_vars

\* C22: in both viewers, after an unmount no animation frame is pending; when
\* the effects run again no frame requested before survives; and a pending
\* frame is always the one animationFrameRef names, so that the cleanup cancels
\* the frame requested last.
C22_SteppingStops ==
  /\ [](~mounted => frames = {})
  /\ [](\A f \in frames : f.id = animationFrameRef)
  /\ [][ lastEvent'.type = "effects" => frames' \cap frames = {} ]_vars

\* C22 witness: the viewer was unmounted after its loop had run a callback,
\* which had requested a frame after the one the effect requested.
C22_Witness ==
  /\ ~mounted /\ hasCleanup
  /\ nTicks > 0 /\ lastEvent.type = "unmount"
  /\ animationFrameRef > 1
  /\ frames = {}

\* C23: in both viewers the render that follows a graph replacement, and the
\* render that follows the effects of that replacement, complete without
\* throwing, also when the replacement removed the hovered node.
C23_NoCrashOnGraphUpdate ==
  lastEvent.type \in {"setGraph", "effects"} => ~crashed

\* The current viewer has rendered the tooltip of a hovered node that a graph
\* replacement removed.
CurrentTooltipOfRemovedNode ==
  /\ variant = "current" /\ ~crashed /\ pending = {}
  /\ lastEvent.type = "effects"
  /\ hoveredNode # Null /\ hoveredNode.id \notin DOMAIN positions

\* ------------------------------------------------------------ the stepping loop

\* C24: at any time at most one animation-frame callback of the viewer is
\* pending, whatever the interleaving of callbacks, graph, ontology, view and
\* size changes and effect runs.
C24_SingleSteppingLoop == Cardinality(frames) <= 1

\* C24 witness: one callback is pending after the loop was started at least
\* twice and ran callbacks in between.
C24_Witness ==
  /\ lastEvent.type = "effects" /\ Cardinality(frames) = 1
  /\ nTicks > 0 /\ nProps >= 2
  /\ animationFrameRef > nTicks + 1

\* ------------------------------------------------------------ resizes

\* The numbers of graph, ontology and size changes and of animation-frame
\* callbacks of a behaviour of SpecResume.
MaxResumeChanges == 4

MaxResumeTicks == 1

\* The full view in a container that is resized: graph, ontology and size
\* changes, the effects and the stepping loop.
NextResume ==
  \/ \E g \in Graphs : PropStep(SetGraph(g), MaxResumeChanges)
  \/ \E vo \in ValueOntologies : PropStep(SetValueOntology(vo), MaxResumeChanges)
  \/ \E s \in Sizes : PropStep(Resize(s), MaxResumeChanges)
  \/ FlushEffects
  \/ \E f \in frames : TickStep(Tick(f), MaxResumeTicks)

SpecResume == Init /\ [][NextResume]_vars

\* C25: a tick that computes forces (the kinetic state is not empty) runs for
\* a graph whose node ids are exactly the ids of the kinetic state, be it the
\* new graph after the reconcile or the previous graph on the previous state,
\* and it neither adds nor drops an entry.
C25_GraphDiffBeforeStep ==
  [][ (lastEvent'.type = "tick" /\ positions # EmptyPositions)
      => \A f \in frames :
           /\ DOMAIN positions = Ids(f.fg.nodes)
           /\ DOMAIN positions' = DOMAIN positions
    ]_vars

\* ------------------------------------------------------------ repulsion

\* Separations of two seeded nodes on one axis, in 1/Q pixel: coincident,
\* closer than one pixel, one pixel and more.
RepulsionOffsets == {0, 1, 3, 5, 9, 10, 30}

MaxRepulsionTicks == 2

\* The state after the effects of the first render in a 60 x 40 container:
\* Math.random() seeded luminous at (30, 20) and truth next to it, and the
\* loop has requested its first frame.
InitRepulsion ==
  /\ graph = InitialGraph
  /\ valueOntology = InitialOntology
  /\ transform = IdentityTransform
  /\ organic = NoOrganic
  /\ selection = NoSelection
  /\ hoveredNode = Null
  /\ mounted = TRUE
  /\ variant = "current"
  /\ size = <<60, 40>>
  /\ view = "full"
  /\ positions \in
       { [id \in {"luminous", "truth"} |->
            IF id = "luminous"
            THEN [id |-> id, x |-> 300, y |-> 200, vx |-> 0, vy |-> 0]
            ELSE [id |-> id, x |-> 300 + dx, y |-> 200 + dy, vx |-> 0, vy |-> 0]] :
         dx \in RepulsionOffsets, dy \in RepulsionOffsets }
  /\ searchTerm = ""
  /\ isDragging = FALSE
  /\ dragStartRef = [x |-> 0, y |-> 0]
  /\ animationFrameRef = 1
  /\ frames = {[id |-> 1, fg |-> InitialGraph, w |-> 60, h |-> 40]}
  /\ nextFrameId = 2
  /\ pending = {}
  /\ hasCleanup = TRUE
  /\ layoutSize = <<60, 40>>
  /\ reconcileSize = <<60, 40>>
  /\ reconcileResult = positions
  /\ crashed = FALSE
  /\ lastEvent = Event("effects", 0, 2, 1)
  /\ nProps = 0
  /\ nTicks = 0
  /\ nInputs = 0

NextRepulsion == \E f \in frames : TickStep(Tick(f), MaxRepulsionTicks)

SpecRepulsion == InitRepulsion /\ [][NextRepulsion]_vars

\* C26: in every tick, for every ordered pair of distinct nodes, the distance
\* the repulsion term uses is max(|d|, 1 pixel), and the impulse one node
\* applies to the other on either axis does not exceed the repulsion constant.
C26_RepulsionDistanceFloor ==
  [][ lastEvent'.type = "tick"
      => \A a \in DOMAIN positions, b \in DOMAIN positions :
           a # b =>
             LET dx == positions[b].x - positions[a].x
                 dy == positions[b].y - positions[a].y
             IN /\ distance(dx, dy) = Max(Sqrt(dx * dx + dy * dy), Q)
                /\ Abs(RepulsionImpulse(dx, distance(dx, dy))) <= repulsion * Q
                /\ Abs(RepulsionImpulse(dy, distance(dx, dy))) <= repulsion * Q
    ]_vars

\* ------------------------------------------------------------ edge weight

\* C27: every rendered edge with a weight in [0, 1], a weight of 0 included,
\* has stroke width 0.5 + weight, and a rendered edge without a weight has
\* stroke width 0.5 + 0.5.
C27_EdgeWeightDefault ==
  (pending = {} /\ ~crashed)
    => \A i \in 1..Len(FilteredGraph.edges) :
         LET e == FilteredGraph.edges[i]
         IN e.id \in RenderedEdgeIds(FilteredGraph, positions)
              => IF "weight" \notin DOMAIN e THEN strokeWidth(e) = 500 + 500
                 ELSE (0 <= e.weight /\ e.weight <= KOne)
                        => strokeWidth(e) = 500 + e.weight

\* The numbers of changes and of animation-frame callbacks of a behaviour of
\* SpecResize.
MaxResizeChanges == 2

MaxResizeTicks == 2

NextResize ==
  \/ \E g \in Graphs : PropStep(SetGraph(g), MaxResizeChanges)
  \/ \E vo \in ValueOntologies : PropStep(SetValueOntology(vo), MaxResizeChanges)
  \/ \E s \in Sizes : PropStep(Resize(s), MaxResizeChanges)
  \/ FlushEffects
  \/ \E f \in frames : TickStep(Tick(f), MaxResizeTicks)

\* React runs pending effects eventually; the host and the user need not do
\* anything.  (A requested animation frame counts as the loop running.)
SpecResize ==
  /\ Init /\ [][NextResize]_vars
  /\ WF_vars(FlushEffects)

\* The layout effect last ran with a zero-size container, so it started no
\* loop, and the container now has a non-zero size.
AwaitingResume ==
  /\ mounted /\ ~crashed /\ view = "full"
  /\ pending = {} /\ ~NonZero(layoutSize) /\ NonZero(size)
  /\ Len(graph.nodes) > 0

\* C28: when the loop was not started because the container measured zero
\* width or height and the container then has a non-zero size, eventually an
\* animation frame of the loop is pending with every node of the graph seeded,
\* unless the graph or the ontology changes first.
C28_SteppingResumes ==
  AwaitingResume
    ~> \/ frames # {} /\ DOMAIN positions = Ids(graph.nodes)
       \/ lastEvent.type \in {"setGraph", "setValueOntology"}

\* ------------------------------------------------------------ dimming

\* isDimmed of a node: searchTerm.trim() && !highlightedNodeIds.has(node.id)
NodeIsDimmed(term, v, fg, id) ==
  Trim(term) # "" /\ id \notin Highlight(term, v, fg).highlightedNodeIds

\* isDimmed of an edge: searchTerm.trim() && !highlightedEdgeIds.has(edge.id)
EdgeIsDimmed(term, v, fg, id) ==
  Trim(term) # "" /\ id \notin Highlight(term, v, fg).highlightedEdgeIds

PreviousPointer ==
  IF lastEvent.type = "wheel"
  THEN << lastEvent.a + SvgOrigin[1], lastEvent.b + SvgOrigin[2] >>
  ELSE << lastEvent.a, lastEvent.b >>

\* C30: a mouse-move during a pan drag changes the translation by exactly the
\* displacement of the pointer since the previous mouse-down, mouse-move or
\* wheel event, and leaves the scale alone, also when wheel events came
\* between the mouse-down and the move.
C30_DragTranslationUnderInterleaving ==
  [][ (/\ lastEvent'.type = "mousemove"
       /\ isDragging
       /\ lastEvent.type \in {"mousedown", "mousemove", "wheel"})
      => /\ transform'.x - transform.x = lastEvent'.a - PreviousPointer[1]
         /\ transform'.y - transform.y = lastEvent'.b - PreviousPointer[2]
         /\ transform'.k = transform.k
    ]_vars

====
